---- MODULE Spec2Model ----
(***************************************************************************)
(* Model of the keyed throttler of src/throttler.go.                       *)
(*                                                                         *)
(* The throttler keeps, per value, the last time the value was allowed.    *)
(* Allow(value) runs under the mutex: it sweeps expired entries when the   *)
(* cleanup interval has passed, then refuses the value when its entry is   *)
(* younger than the throttle duration, and otherwise stores the current    *)
(* time for it.                                                            *)
(*                                                                         *)
(* Time is the monotonic clock of Go's time package, in abstract units.    *)
(* Every time.Now() / time.Since() in the code is a separate reading of    *)
(* the clock, so Allow is modelled one clock reading per step, and the     *)
(* clock may advance between any two steps, also inside the critical       *)
(* section.  Threads are goroutines calling Allow on the one throttler.    *)
(***************************************************************************)
EXTENDS Integers, FiniteSets

\* ------------------------------------------------------------------ bounds
NumThreads == 2
NumKeys == 2
MaxTime == 2

Threads == 1..NumThreads
Keys == 1..NumKeys
Times == 0..MaxTime

\* The durations NewThrottler is given. time.Duration is signed: negative and
\* zero durations are legal arguments.
Throttles == {-1, 0, 1, 2}
Cleanups == {-1, 0, 1}

\* the zero value of sync.Mutex: nobody holds it
Unlocked == 0

VARIABLES
  now,          \* the monotonic clock
  mu,           \* t.mu: Unlocked, or the thread that holds the mutex
  valueMap,     \* t.valueMap: value -> last time it was allowed
  throttle,     \* t.throttle
  cleanup,      \* t.cleanup
  lastClean,    \* t.lastClean
  pc,           \* where each thread is in Allow
  value,        \* the argument of the call of each thread inside Allow
  ret,          \* the result of each thread's call
  todo,         \* the entries the running range loop has still to visit
  \* history, read by the properties only
  lastAllowed,  \* value -> the time stored by the most recent call on it
                \* that returned true
  noSweep,      \* the valueMap of a throttler that never sweeps, fed the
                \* same calls and the same clock readings
  nsRet,        \* the result that throttler gives the call holding the mutex
  started,      \* the clock at the first call of a burst (SpecBurst only)
  cleanAt       \* while a sweep runs: the clock reading of line 44 that
                \* started it

vars == <<now, mu, valueMap, throttle, cleanup, lastClean, pc, value, ret,
          todo, lastAllowed, noSweep, nsRet, started, cleanAt>>

\* ------------------------------------------------------------------ helpers
\* make(map[interface{}]time.Time)
EmptyMap == [x \in {} |-> 0]

\* m[k] = t
Put(m, k, t) == [x \in (DOMAIN m) \cup {k} |-> IF x = k THEN t ELSE m[x]]

\* delete(m, k)
Delete(m, k) == [x \in (DOMAIN m) \ {k} |-> m[x]]

\* time.Since(t), the clock reading clock
Since(t, clock) == clock - t

\* line 44: time.Since(t.lastClean) > t.cleanup
NeedsCleanOrEqual(clock) == Since(lastClean, clock) >= cleanup
NeedsCleanByThrottle(clock) == Since(lastClean, clock) > throttle
NeedsCleanLess(clock) == Since(lastClean, clock) < cleanup
NeedsClean(clock) == Since(lastClean, clock) > cleanup

\* line 46: time.Since(lastTime) > t.throttle
ExpiredByCleanup(lastTime, clock) == Since(lastTime, clock) > cleanup
ExpiredNegated(lastTime, clock) == Since(lastTime, clock) < throttle
ExpiredAlways(lastTime, clock) == TRUE
ExpiredOrEqual(lastTime, clock) == Since(lastTime, clock) >= throttle
Expired(lastTime, clock) == Since(lastTime, clock) > throttle

\* line 54: lastTime, ok := t.valueMap[value]; ok && time.Since(lastTime) < t.throttle
ThrottledByCleanup(m, k, clock) == k \in DOMAIN m /\ Since(m[k], clock) < cleanup
ThrottledNotOk(m, k, clock) == k \notin DOMAIN m \/ Since(m[k], clock) < throttle
ThrottledGreater(m, k, clock) == k \in DOMAIN m /\ Since(m[k], clock) > throttle
ThrottledOrEqual(m, k, clock) == k \in DOMAIN m /\ Since(m[k], clock) <= throttle
Throttled(m, k, clock) == k \in DOMAIN m /\ Since(m[k], clock) < throttle

\* ------------------------------------------------------------------ Init
\* NewThrottler: an empty map, lastClean = time.Now(); no call is running
Init ==
  /\ now = 0
  /\ mu = Unlocked
  /\ valueMap = EmptyMap
  /\ throttle \in Throttles
  /\ cleanup \in Cleanups
  /\ lastClean = now
  /\ pc = [p \in Threads |-> "idle"]
  /\ value = [p \in Threads |-> 1]
  /\ ret = [p \in Threads |-> FALSE]
  /\ todo = {}
  /\ lastAllowed = EmptyMap
  /\ noSweep = EmptyMap
  /\ nsRet = FALSE
  /\ started = {}
  /\ cleanAt = 0

\* ------------------------------------------------------------------ actions
\* the clock advances
TickWall ==
  /\ now' \in Times \ {now}
  /\ UNCHANGED <<mu, valueMap, throttle, cleanup, lastClean, pc, value, ret,
                 todo, lastAllowed, noSweep, nsRet, started, cleanAt>>

Tick ==
  /\ now < MaxTime
  /\ now' = now + 1
  /\ UNCHANGED <<mu, valueMap, throttle, cleanup, lastClean, pc, value, ret,
                 todo, lastAllowed, noSweep, nsRet, started, cleanAt>>

\* a thread calls Allow and comes to t.mu.Lock()
Call(p) ==
  /\ pc[p] = "idle"
  /\ pc' = [pc EXCEPT ![p] = "lock"]
  /\ UNCHANGED <<now, mu, valueMap, throttle, cleanup, lastClean, value, ret,
                 todo, lastAllowed, noSweep, nsRet, started, cleanAt>>

\* line 40: t.mu.Lock() returns once nobody holds the mutex.  k is the
\* argument of the call: nothing reads it before the mutex is held, so it is
\* drawn here.
LockNoWait(p, k) ==
  /\ pc[p] = "lock"
  /\ mu' = p
  /\ value' = [value EXCEPT ![p] = k]
  /\ pc' = [pc EXCEPT ![p] = "cleancheck"]
  /\ UNCHANGED <<now, valueMap, throttle, cleanup, lastClean, ret, todo,
                 lastAllowed, noSweep, nsRet, started, cleanAt>>

Lock(p, k) ==
  /\ pc[p] = "lock"
  /\ mu = Unlocked
  /\ mu' = p
  /\ value' = [value EXCEPT ![p] = k]
  /\ pc' = [pc EXCEPT ![p] = "cleancheck"]
  /\ UNCHANGED <<now, valueMap, throttle, cleanup, lastClean, ret, todo,
                 lastAllowed, noSweep, nsRet, started, cleanAt>>

\* line 44: if time.Since(t.lastClean) > t.cleanup
CleanCheckStamp(p) ==
  /\ pc[p] = "cleancheck"
  /\ IF NeedsClean(now)
       THEN /\ pc' = [pc EXCEPT ![p] = "sweep"]
            /\ todo' = DOMAIN valueMap
            /\ cleanAt' = now
            /\ lastClean' = lastClean
       ELSE /\ pc' = [pc EXCEPT ![p] = "check"]
            /\ todo' = todo
            /\ cleanAt' = cleanAt
            /\ lastClean' = now
  /\ UNCHANGED <<now, mu, valueMap, throttle, cleanup, value, ret,
                 lastAllowed, noSweep, nsRet, started>>

CleanCheck(p) ==
  /\ pc[p] = "cleancheck"
  /\ IF NeedsClean(now)
       THEN /\ pc' = [pc EXCEPT ![p] = "sweep"]
            /\ todo' = DOMAIN valueMap
            /\ cleanAt' = now
       ELSE /\ pc' = [pc EXCEPT ![p] = "check"]
            /\ todo' = todo
            /\ cleanAt' = cleanAt
  /\ UNCHANGED <<now, mu, valueMap, throttle, cleanup, lastClean, value, ret,
                 lastAllowed, noSweep, nsRet, started>>

\* lines 45-49: one iteration of the range loop; the order of a map range is
\* not specified, and an entry removed before it is reached is not produced
SweepEntry(p, val) ==
  /\ pc[p] = "sweep"
  /\ val \in todo
  /\ valueMap' = IF val \in DOMAIN valueMap /\ Expired(valueMap[val], now)
                   THEN Delete(valueMap, val)
                   ELSE valueMap
  /\ todo' = todo \ {val}
  /\ UNCHANGED <<now, mu, throttle, cleanup, lastClean, pc, value, ret,
                 lastAllowed, noSweep, nsRet, started, cleanAt>>

\* line 50: the loop is over, t.lastClean = time.Now()
SweepDone(p) ==
  /\ pc[p] = "sweep"
  /\ todo = {}
  /\ lastClean' = now
  /\ pc' = [pc EXCEPT ![p] = "check"]
  /\ cleanAt' = 0
  /\ UNCHANGED <<now, mu, valueMap, throttle, cleanup, value, ret, todo,
                 lastAllowed, noSweep, nsRet, started>>

\* lines 54-56: the decision
CheckTouch(p) ==
  /\ pc[p] = "check"
  /\ IF Throttled(valueMap, value[p], now)
       THEN /\ ret' = [ret EXCEPT ![p] = FALSE]
            /\ pc' = [pc EXCEPT ![p] = "unlock"]
            /\ valueMap' = Put(valueMap, value[p], now)
       ELSE /\ ret' = ret
            /\ pc' = [pc EXCEPT ![p] = "store"]
            /\ valueMap' = valueMap
  /\ nsRet' = ~Throttled(noSweep, value[p], now)
  /\ noSweep' = IF nsRet' /\ pc'[p] = "unlock"
                  THEN Put(noSweep, value[p], now)
                  ELSE noSweep
  /\ UNCHANGED <<now, mu, throttle, cleanup, lastClean, value, todo,
                 lastAllowed, started, cleanAt>>

Check(p) ==
  /\ pc[p] = "check"
  /\ IF Throttled(valueMap, value[p], now)
       THEN /\ ret' = [ret EXCEPT ![p] = FALSE]
            /\ pc' = [pc EXCEPT ![p] = "unlock"]
       ELSE /\ ret' = ret
            /\ pc' = [pc EXCEPT ![p] = "store"]
  \* the throttler that never sweeps decides on its own map, at the same clock
  \* reading; when it alone admits the call it stores that reading
  /\ nsRet' = ~Throttled(noSweep, value[p], now)
  /\ noSweep' = IF nsRet' /\ pc'[p] = "unlock"
                  THEN Put(noSweep, value[p], now)
                  ELSE noSweep
  /\ UNCHANGED <<now, mu, valueMap, throttle, cleanup, lastClean, value, todo,
                 lastAllowed, started, cleanAt>>

\* lines 58-59: t.valueMap[value] = time.Now(); return true
Store(p) ==
  /\ pc[p] = "store"
  /\ valueMap' = Put(valueMap, value[p], now)
  /\ ret' = [ret EXCEPT ![p] = TRUE]
  /\ pc' = [pc EXCEPT ![p] = "unlock"]
  /\ noSweep' = IF nsRet THEN Put(noSweep, value[p], now) ELSE noSweep
  /\ UNCHANGED <<now, mu, throttle, cleanup, lastClean, value, todo,
                 lastAllowed, nsRet, started, cleanAt>>

\* line 41: the deferred t.mu.Unlock(), run as Allow returns ret[p]
ReleaseOnAllowOnly(p) ==
  /\ pc[p] = "unlock"
  /\ mu' = IF ret[p] THEN Unlocked ELSE mu
  /\ lastAllowed' = IF ret[p] /\ value[p] \in DOMAIN valueMap
                      THEN Put(lastAllowed, value[p], valueMap[value[p]])
                      ELSE lastAllowed
  /\ nsRet' = FALSE
  /\ UNCHANGED <<now, valueMap, throttle, cleanup, lastClean, todo, noSweep,
                 cleanAt>>

Release(p) ==
  /\ pc[p] = "unlock"
  /\ mu' = Unlocked
  /\ lastAllowed' = IF ret[p] /\ value[p] \in DOMAIN valueMap
                      THEN Put(lastAllowed, value[p], valueMap[value[p]])
                      ELSE lastAllowed
  /\ nsRet' = FALSE
  /\ UNCHANGED <<now, valueMap, throttle, cleanup, lastClean, todo, noSweep,
                 cleanAt>>

\* Allow returns; the caller drops the result and may call again
Unlock(p) ==
  /\ Release(p)
  /\ pc' = [pc EXCEPT ![p] = "idle"]
  /\ value' = [value EXCEPT ![p] = 1]
  /\ ret' = [ret EXCEPT ![p] = FALSE]
  /\ UNCHANGED started

\* the steps of Allow while it holds the mutex, up to its result
Critical(p) ==
  \/ CleanCheck(p)
  \/ \E val \in Keys : SweepEntry(p, val)
  \/ SweepDone(p)
  \/ Check(p)
  \/ Store(p)

\* one step of a call of Allow by thread p
Allow(p) ==
  \/ Call(p)
  \/ \E k \in Keys : Lock(p, k)
  \/ Critical(p)
  \/ Unlock(p)

Next ==
  \/ Tick
  \/ \E p \in Threads : Allow(p)

Spec == Init /\ [][Next]_vars

\* ------------------------------------------------------------------ claims
\* A thread at "unlock" has its result in ret and still holds the mutex;
\* lastAllowed is brought up to date as the call returns, so at "unlock" it
\* still holds what the calls that returned earlier stored.

\* C1: for a positive throttle, two calls on the same value that both return
\* true store timestamps at least throttle apart: the timestamp an admitted
\* call stored is at least throttle later than the one stored by the previous
\* admitted call on that value.
C1_AdmittedCallsApart ==
  throttle > 0 =>
    \A p \in Threads :
      (pc[p] = "unlock" /\ ret[p] /\ value[p] \in DOMAIN lastAllowed) =>
        /\ value[p] \in DOMAIN valueMap
        /\ valueMap[value[p]] - lastAllowed[value[p]] >= throttle

\* a second call on a value has been admitted under a positive throttle
C1_Witness ==
  \E p \in Threads :
    /\ throttle > 0
    /\ pc[p] = "unlock" /\ ret[p]
    /\ value[p] \in DOMAIN lastAllowed

\* C2: a call on a value for which no entry was ever created returns true,
\* whatever the durations, the clock and the earlier calls on other values.
C2_FirstCallAllowed ==
  \A p \in Threads :
    (pc[p] = "unlock" /\ value[p] \notin DOMAIN lastAllowed) => ret[p]

\* a fresh value is admitted after time has passed and another value was seen
C2_Witness ==
  \E p \in Threads :
    /\ pc[p] = "unlock" /\ ret[p]
    /\ value[p] \notin DOMAIN lastAllowed
    /\ DOMAIN lastAllowed # {}
    /\ now > 0

\* C3: a call on a value that decides while less than throttle has elapsed
\* since the last admitted call on that value returns false (it never gets to
\* store, and its result is false).
C3_RepeatSuppressed ==
  \A p \in Threads :
    ( /\ pc[p] \in {"store", "unlock"}
      /\ value[p] \in DOMAIN lastAllowed
      /\ Since(lastAllowed[value[p]], now) < throttle )
    => (pc[p] = "unlock" /\ ~ret[p])

\* an immediate repeat (no time elapsed since the admitted call) was refused
C3_Witness ==
  \E p \in Threads :
    /\ pc[p] = "unlock" /\ ~ret[p]
    /\ value[p] \in DOMAIN lastAllowed
    /\ lastAllowed[value[p]] = now

Verdict(k, t) == ~Throttled(valueMap, k, t)

\* C6: values are throttled independently: no step taken while the mutex is
\* held by a call on another value changes what Allow(b) answers, now or at
\* any later clock reading.
C6_KeyIndependence ==
  [][ \A b \in Keys :
        (mu # Unlocked /\ value[mu] # b) =>
          \A t \in now'..MaxTime : Verdict(b, t)' = Verdict(b, t) ]_vars

\* Allow(a) then Allow(b): b is admitted as a fresh value while a is throttled
C6_Witness ==
  \E p \in Threads, a \in Keys :
    /\ pc[p] = "unlock" /\ ret[p]
    /\ value[p] # a
    /\ value[p] \notin DOMAIN lastAllowed
    /\ Throttled(valueMap, a, now)

\* C7: with cleanup shorter than throttle, sweeps never lift an active
\* throttle: while less than throttle has elapsed since the last admitted call
\* on a value, the value keeps its entry with that timestamp, and every call
\* on it returns false.
C7_SweepKeepsThrottle ==
  cleanup < throttle =>
    \A k \in DOMAIN lastAllowed :
      Since(lastAllowed[k], now) < throttle =>
        /\ k \in DOMAIN valueMap
        /\ valueMap[k] = lastAllowed[k]
        /\ \A p \in Threads : (pc[p] = "unlock" /\ value[p] = k) => ~ret[p]

\* a call is refused inside the window after a sweep ran since the admission
C7_Witness ==
  \E p \in Threads :
    /\ cleanup < throttle
    /\ pc[p] = "unlock" /\ ~ret[p]
    /\ value[p] \in DOMAIN lastAllowed
    /\ lastClean > lastAllowed[value[p]]
    /\ Since(lastAllowed[value[p]], now) < throttle

\* C8: eviction is invisible: every call returns what the throttler that
\* never sweeps returns for it.
C8_EvictionInvisible ==
  \A p \in Threads : pc[p] = "unlock" => ret[p] = nsRet

\* a swept value is admitted, and the throttler that still has its entry
\* admits it too
C8_Witness ==
  \E p \in Threads :
    /\ pc[p] = "store"
    /\ value[p] \notin DOMAIN valueMap
    /\ value[p] \in DOMAIN noSweep
    /\ nsRet

C12_AllowsOnlyMoreThanThrottleAgo ==
  [][ \A p \in Threads :
        (throttle > 0 /\ pc[p] = "check" /\ pc'[p] # "check")
          => ( pc'[p] = "store"
               <=> ( \/ value[p] \notin DOMAIN valueMap
                     \/ Since(valueMap[value[p]], now) > throttle ) ) ]_vars

\* lines 40-59: thread p is between t.mu.Lock() and the deferred t.mu.Unlock()
InCritical(p) == pc[p] \in {"cleancheck", "sweep", "check", "store", "unlock"}

\* C13: calls are serialized by the mutex: a thread between t.mu.Lock() and
\* t.mu.Unlock() holds the mutex, so at most one call is there at a time; and
\* the map, lastClean and the range loop change only in a step of the call
\* that holds the mutex, which still holds it afterwards.  Each call thus
\* runs its critical section on the state the previous holder left, as in a
\* one-at-a-time execution in the order the mutex was acquired.
C13_Serialized ==
  /\ [](\A p \in Threads : InCritical(p) => mu = p)
  /\ [][ (valueMap' # valueMap \/ lastClean' # lastClean \/ todo' # todo)
          => /\ mu \in Threads
             /\ mu' = mu
             /\ InCritical(mu)
             /\ \A q \in Threads \ {mu} : pc'[q] = pc[q] /\ ret'[q] = ret[q] ]_vars

\* a call is about to write the map while another call waits for the mutex
\* and calls have returned before
C13_Witness ==
  \E p, q \in Threads :
    /\ p # q
    /\ pc[p] = "lock"
    /\ mu = q
    /\ pc[q] = "store"
    /\ DOMAIN lastAllowed # {}

C17_RefusalLeavesEntry ==
  \A p \in Threads :
    (pc[p] = "unlock" /\ ~ret[p]) =>
      /\ value[p] \in DOMAIN lastAllowed
      /\ value[p] \in DOMAIN valueMap
      /\ valueMap[value[p]] = lastAllowed[value[p]]

\* a call is refused some time after the admitted call, and a sweep that
\* ended since the admission has kept the entry
C17_Witness ==
  \E p \in Threads :
    /\ pc[p] = "unlock" /\ ~ret[p]
    /\ value[p] \in DOMAIN valueMap
    /\ valueMap[value[p]] < now
    /\ lastClean > valueMap[value[p]]

\* C18: the timestamp of a value never goes back from one admitted call on
\* it to the next: whatever entry the value has is not older than the one the
\* last admitted call that returned stored, also when that one was swept.
C18_TimestampsMonotonic ==
  \A k \in DOMAIN valueMap \cap DOMAIN lastAllowed :
    valueMap[k] >= lastAllowed[k]

\* a value is admitted again after its entry was swept: under a negative
\* throttle a sweep that ended after the earlier admission has removed it
C18_Witness ==
  \E p \in Threads :
    /\ throttle < 0
    /\ pc[p] = "unlock" /\ ret[p]
    /\ value[p] \in DOMAIN lastAllowed
    /\ lastClean > lastAllowed[value[p]]
    /\ valueMap[value[p]] > lastAllowed[value[p]]

\* C19: lastClean is never later than the clock, and it changes only at the
\* end of a complete sweep, to the current time: a call that finds no more
\* than cleanup elapsed goes straight to its decision, and from there to its
\* return lastClean stays and no entry is removed; entries are removed only
\* while a sweep runs.
C19_LastCleanBySweepOnly ==
  /\ [](lastClean <= now)
  /\ [][ /\ lastClean' # lastClean =>
            \E p \in Threads :
              /\ pc[p] = "sweep" /\ todo = {} /\ pc'[p] = "check"
              /\ lastClean' = now
         /\ DOMAIN valueMap \ DOMAIN valueMap' # {} =>
              \E p \in Threads : pc[p] = "sweep" /\ pc'[p] = "sweep"
         /\ \A p \in Threads :
              /\ ( /\ pc[p] = "cleancheck" /\ pc'[p] # "cleancheck"
                   /\ ~(Since(lastClean, now) > cleanup) )
                 => /\ pc'[p] = "check"
                    /\ lastClean' = lastClean /\ valueMap' = valueMap
              /\ pc[p] \in {"check", "store", "unlock"}
                 => /\ lastClean' = lastClean
                    /\ DOMAIN valueMap \subseteq DOMAIN valueMap' ]_vars

\* a call has come to its result after the clock advanced without sweeping:
\* lastClean is still the time of construction
C19_Witness ==
  \E p \in Threads :
    /\ cleanup > 0
    /\ lastClean = 0
    /\ now > 0
    /\ pc[p] = "unlock"
    /\ DOMAIN valueMap = Keys

\* C20: while no call holds the mutex, every entry of the map belongs to a
\* value that some call was admitted on, holds the time the last admitted
\* call on that value stored, and is not later than the clock; and as any
\* call returns, true or false, its value has an entry.
C20_EntriesAreAdmissions ==
  /\ mu = Unlocked =>
       \A k \in DOMAIN valueMap :
         /\ k \in DOMAIN lastAllowed
         /\ valueMap[k] = lastAllowed[k]
         /\ valueMap[k] <= now
  /\ \A p \in Threads : pc[p] = "unlock" => value[p] \in DOMAIN valueMap

\* no call holds the mutex; one admitted value has its entry and another
\* has lost it to a sweep
C20_Witness ==
  /\ mu = Unlocked
  /\ DOMAIN valueMap # {}
  /\ DOMAIN lastAllowed \ DOMAIN valueMap # {}
  /\ \E k \in DOMAIN valueMap : valueMap[k] < now

\* ------------------------------------------------------------------ a burst
\* The goroutines each call Allow once and keep the result, as a test of the
\* throttler under concurrent callers does.

\* a thread of the burst calls Allow; the first call notes the clock
CallOnce(p) ==
  /\ pc[p] = "idle"
  /\ pc' = [pc EXCEPT ![p] = "lock"]
  /\ started' = IF started = {} THEN {now} ELSE started
  /\ UNCHANGED <<now, mu, valueMap, throttle, cleanup, lastClean, value, ret,
                 todo, lastAllowed, noSweep, nsRet, cleanAt>>

\* Allow returns and the caller keeps the result
Return(p) ==
  /\ Release(p)
  /\ pc' = [pc EXCEPT ![p] = "returned"]
  /\ UNCHANGED <<value, ret, started>>

NextBurst ==
  \/ Tick
  \/ \E p \in Threads :
       \/ CallOnce(p)
       \/ \E k \in Keys : Lock(p, k)
       \/ Critical(p)
       \/ Return(p)

SpecBurst == Init /\ [][NextBurst]_vars

\* every thread has returned from its call, all calls were on value k, and
\* less than throttle has elapsed since the first of them was invoked
BurstDone(k) ==
  /\ \A p \in Threads : pc[p] = "returned" /\ value[p] = k
  /\ \A t \in started : Since(t, now) < throttle

\* C5: when all threads call Allow with the same never-seen value and all the
\* calls fall within one throttle duration, exactly one call returns true and
\* the others return false, in every interleaving.
C5_ExactlyOneAdmitted ==
  \A k \in Keys :
    BurstDone(k) => Cardinality({p \in Threads : ret[p]}) = 1

\* a burst on one value is over within the window: one thread was admitted
\* and another refused
C5_Witness ==
  \E k \in Keys, p, q \in Threads :
    /\ BurstDone(k)
    /\ ret[p] /\ ~ret[q]

\* ------------------------------------------------------- successive sweeps
\* With a positive cleanup two sweeps are more than cleanup apart, so a run
\* with two of them needs a longer stretch of time; it is explored for one
\* positive cleanup.
MaxSweepTime == 4

\* the clock advances, up to the longer horizon
TickLong ==
  /\ now < MaxSweepTime
  /\ now' = now + 1
  /\ UNCHANGED <<mu, valueMap, throttle, cleanup, lastClean, pc, value, ret,
                 todo, lastAllowed, noSweep, nsRet, started, cleanAt>>

InitSweeps == Init /\ cleanup = 1

NextSweeps ==
  \/ TickLong
  \/ \E p \in Threads : Allow(p)

SpecSweeps == InitSweeps /\ [][NextSweeps]_vars

\* C15: for a positive cleanup a sweep runs at most once per cleanup: a sweep
\* is only ever in progress more than cleanup after the time lastClean holds
\* (the time of construction, then of the sweep before), and each new value
\* of lastClean is more than cleanup later than the one it replaces.
C15_SweepsApart ==
  /\ [](cleanup > 0 =>
          \A p \in Threads : pc[p] = "sweep" => Since(lastClean, now) > cleanup)
  /\ [][ (cleanup > 0 /\ lastClean' # lastClean)
          => lastClean' - lastClean > cleanup ]_vars

\* a second sweep is at its end: a sweep has set lastClean since construction
\* and the scan of a later one is over
C15_Witness ==
  \E p \in Threads :
    /\ cleanup > 0
    /\ lastClean > 0
    /\ pc[p] = "sweep"
    /\ todo = {}
    /\ DOMAIN valueMap # {}

\* ------------------------------------------------------------------ fairness
\* The scheduler runs every runnable goroutine, so a call that holds the
\* mutex keeps taking steps.  sync.Mutex hands the mutex to a waiter that has
\* been starved, so a waiter for which the mutex becomes free again and again
\* gets it eventually.  Both are the strong fairness of the steps of a call
\* from t.mu.Lock() on; no thread is bound to call Allow, and the clock is
\* not bound to advance.
Fairness ==
  \A p \in Threads :
    SF_vars((\E k \in Keys : Lock(p, k)) \/ Critical(p) \/ Unlock(p))

\* Liveness is checked for one throttler, which sweeps on some calls and not
\* on others and admits some calls and refuses others.
InitFair == Init /\ throttle = 1 /\ cleanup = 0

SpecFair == InitFair /\ [][Next]_vars /\ Fairness

\* C9: Allow is total: under fair scheduling every call that was invoked
\* gets the mutex, comes to a result and returns, with the mutex released.
C9_AllowReturns ==
  \A p \in Threads : (pc[p] = "lock") ~> (pc[p] = "idle" /\ mu # p)

\* a call waits for the mutex while another call is sweeping
C9_Witness ==
  \E p, q \in Threads :
    /\ pc[p] = "lock"
    /\ mu = q
    /\ pc[q] = "sweep"
    /\ todo # {}

\* ------------------------------------------------------------------ eviction
\* Entries are only swept by calls of Allow.  To follow a stale entry to its
\* removal the callers are taken to keep calling: whenever a goroutine is
\* free to call Allow, one of them does.
SpecCalls ==
  /\ InitFair
  /\ [][Next]_vars
  /\ Fairness
  /\ WF_vars(\E p \in Threads : Call(p))

\* the value k has an entry that is more than throttle old
Stale(k) == k \in DOMAIN valueMap /\ Since(valueMap[k], now) > throttle

\* C16 as claimed: a call made when cleanup or more has elapsed since
\* lastClean removes every entry that is more than throttle old: when the
\* call comes to its decision, no entry that was more than throttle old at the
\* call's reading of line 44 is left.
C16_EvictsFromCleanupOn ==
  [][ \A p \in Threads :
        /\ ( /\ pc[p] = "cleancheck" /\ pc'[p] = "check"
             /\ Since(lastClean, now) >= cleanup )
           => \A k \in DOMAIN valueMap' : ~(Since(valueMap'[k], now) > throttle)
        /\ (pc[p] = "sweep" /\ pc'[p] = "check")
           => \A k \in DOMAIN valueMap' :
                ~(Since(valueMap'[k], cleanAt) > throttle) ]_vars

\* C16: a call, on any value, made when more than cleanup has elapsed since
\* lastClean removes every entry that is more than throttle old: when the
\* call comes to its decision, no entry that was more than throttle old at the
\* call's reading of line 44 is left.  Hence, while Allow keeps being called,
\* an entry that is more than throttle old when a sweep is due and no call
\* holds the mutex does not stay: it is removed (and a call on its value may
\* then store a new one).
C16_StaleEvicted ==
  /\ [][ \A p \in Threads :
          /\ ( /\ pc[p] = "cleancheck" /\ pc'[p] = "check"
               /\ Since(lastClean, now) > cleanup )
             => \A k \in DOMAIN valueMap' :
                  ~(Since(valueMap'[k], now) > throttle)
          /\ (pc[p] = "sweep" /\ pc'[p] = "check")
             => \A k \in DOMAIN valueMap' :
                  ~(Since(valueMap'[k], cleanAt) > throttle) ]_vars
  /\ \A k \in Keys :
       (mu = Unlocked /\ Stale(k) /\ Since(lastClean, now) > cleanup)
         ~> ~Stale(k)

\* the first sweep of a run is over and has removed the entry of a value
\* other than the one the sweeping call is on
C16_Witness ==
  \E p \in Threads, k \in DOMAIN lastAllowed \ DOMAIN valueMap :
    /\ cleanup >= 0
    /\ lastClean = 0
    /\ pc[p] = "sweep"
    /\ todo = {}
    /\ k # value[p]

====
